---- MODULE Spec2Model ----
(***************************************************************************)
(* Inventory ledger of the warehouse application: the localStorage record  *)
(* store, the InventoryProvider (lazy provisioning, manual adjustment,     *)
(* refresh triggers), the stock-in page (save / delete of orders) and the  *)
(* permission evaluator.                                                   *)
(***************************************************************************)
EXTENDS Integers, Sequences, FiniteSets, TLC

\* ---------------------------------------------------------------- bounds
MaxTx == 2          \* longest inventoryTransactions log explored
MaxOrders == 1      \* stock-in orders ever created
MaxTime == 2        \* last clock value (milliseconds since start) explored

\* ------------------------------------------------------------- universes
Materials == {"m1", "m2"}
NoMaterial == ""
Deltas == {-2, -1, 0, 1}            \* signed quantities typed into the adjustment dialog
Statuses == {"draft", "completed", "cancelled"}
NoOrder == 0
NoTimestamp == 0
NoUser == [role |-> "none", isActive |-> FALSE, permissions |-> <<>>]

Modules == {"dashboard", "inventory", "stock_in", "stock_out", "reports", "users"}
Permissions == {"view", "edit", "delete", "manage_users", "manage_settings"}

\* src/unnamed/part_004 DEFAULT_PERMISSIONS
DEFAULT_PERMISSIONS ==
  [admin |-> [dashboard |-> {"view"},
              inventory |-> {"view", "edit", "delete"},
              stock_in |-> {"view", "edit", "delete"},
              stock_out |-> {"view", "edit", "delete"},
              reports |-> {"view"},
              users |-> {"view", "edit", "delete", "manage_users"}],
   manager |-> [dashboard |-> {"view"},
                inventory |-> {"view", "edit"},
                stock_in |-> {"view", "edit"},
                stock_out |-> {"view", "edit"},
                reports |-> {"view"},
                users |-> {"view"}],
   staff |-> [dashboard |-> {"view"},
              inventory |-> {"view"},
              stock_in |-> {"view", "edit"},
              stock_out |-> {"view", "edit"},
              reports |-> {},
              users |-> {}]]

\* ------------------------------------------------------------ permission
\* seeded fault: the admin bypass is tested before the active flag
hasPermissionAdminFirst(user, module, permission) ==
  IF user = NoUser THEN FALSE
  ELSE IF user.role = "admin" THEN TRUE
  ELSE IF ~user.isActive THEN FALSE
  ELSE IF module \in DOMAIN user.permissions
       THEN permission \in user.permissions[module]
       ELSE FALSE

\* usePermissions / hasPermission: absent or inactive -> false, admin -> true,
\* otherwise membership in the module's list (a module without a list -> false)
hasPermission(user, module, permission) ==
  IF user = NoUser \/ ~user.isActive THEN FALSE
  ELSE IF user.role = "admin" THEN TRUE
  ELSE IF module \in DOMAIN user.permissions
       THEN permission \in user.permissions[module]
       ELSE FALSE

\* ------------------------------------------------------------------ state
VARIABLES
  materials,              \* localStorage 'materials': sequence of material ids
  inventory,              \* localStorage 'inventory': sequence of InventoryItem
  inventoryTransactions,  \* localStorage 'inventoryTransactions'
  stockInOrders,          \* localStorage 'stockInOrders'
  stockInItems,           \* localStorage 'stockInItems'
  orderIds,               \* number of stock-in order ids generateId has handed out
  currentUser,            \* App state: the logged-in User or NoUser
  users,                  \* localStorage 'users': sequence of User
  syncStatus,             \* InventoryProvider state
  closureSyncStatus,      \* syncStatus captured by the installed listeners' forceRefresh
  lastUpdateTimestamp,    \* InventoryProvider ref: watermark of applied signals
  pendingNotify,          \* stock-in setTimeout(100) callbacks not yet run
  now,                    \* Date.now()
  last                    \* the latest handler call: operation and outcome

\* the record initializeDefaultAdmin stores in an empty users collection
DefaultAdmin ==
  [id |-> 1, username |-> "admin", role |-> "admin", isActive |-> TRUE,
   permissions |-> DEFAULT_PERMISSIONS.admin]

vars == <<materials, inventory, inventoryTransactions, stockInOrders, stockInItems,
          orderIds, currentUser, users, syncStatus, closureSyncStatus,
          lastUpdateTimestamp, pendingNotify, now, last>>

store == <<materials, inventory, inventoryTransactions, stockInOrders, stockInItems, orderIds>>

\* ---------------------------------------------------------------- helpers
RECURSIVE SumSeq(_)
SumSeq(s) == IF s = <<>> THEN 0 ELSE Head(s) + SumSeq(Tail(s))

\* generateId: an identifier no record of the collection carries (the code
\* draws it from the clock and a random suffix; only its freshness matters)
generateId(items) ==
  LET used == {items[i].id : i \in DOMAIN items}
  IN CHOOSE id \in 1..(Len(items) + 1) : id \notin used /\ \A j \in 1..(id - 1) : j \in used

\* Array.prototype.findIndex / find over the indices whose record passes the
\* test: the first of them, 0 if none
FindIndex(matches) ==
  IF matches = {} THEN 0 ELSE CHOOSE i \in matches : \A j \in matches : i <= j

\* LocalStorageService.create: append the record under a fresh id
Create(items, fields) == Append(items, [id |-> generateId(items)] @@ fields)

\* LocalStorageService.delete: drop the record with this id
Delete(items, id) == SelectSeq(items, LAMBDA it : it.id # id)

\* ----------------------------------------------------- InventoryProvider
\* What one handler call has done so far to the ledger and the provider.
Ctx == [inventory |-> inventory,
        inventoryTransactions |-> inventoryTransactions,
        stockInItems |-> stockInItems,
        lastUpdateTimestamp |-> lastUpdateTimestamp,
        refreshed |-> FALSE,
        refreshes |-> 0,
        reads |-> <<>>,
        dispatched |-> <<>>,
        failed |-> FALSE]

RECURSIVE ProvisionUnchecked(_, _, _)
\* seeded fault: the loop creates an item without testing inventoryExists
ProvisionUnchecked(inv, inventoryItems, latestMaterials) ==
  IF latestMaterials = <<>> THEN inv
  ELSE ProvisionUnchecked(Create(inv, [materialId |-> Head(latestMaterials), quantity |-> 0,
                                       alertThreshold |-> 10]),
                          inventoryItems, Tail(latestMaterials))

RECURSIVE Provision(_, _, _)
\* the forEach of loadAllData: inventoryExists is tested against the list read
\* before the loop
Provision(inv, inventoryItems, latestMaterials) ==
  IF latestMaterials = <<>> THEN inv
  ELSE LET material == Head(latestMaterials)
           inventoryExists ==
             \E i \in DOMAIN inventoryItems : inventoryItems[i].materialId = material
       IN Provision(IF inventoryExists THEN inv
                    ELSE Create(inv, [materialId |-> material, quantity |-> 0,
                                      alertThreshold |-> 10]),
                    inventoryItems, Tail(latestMaterials))

\* seeded fault: the refresh also resets every quantity to the sum of the
\* transactions stored for the material
loadAllDataReconciling(inv) ==
  LET loaded == Provision(inv, inv, materials)
      sum(m) == LET txs == SelectSeq(inventoryTransactions, LAMBDA tx : tx.materialId = m)
                IN SumSeq([k \in DOMAIN txs |-> txs[k].quantity])
  IN [i \in DOMAIN loaded |-> [loaded[i] EXCEPT !.quantity = sum(loaded[i].materialId)]]

\* loadAllData, as far as the store goes: lazy provisioning
loadAllData(inv) == Provision(inv, inv, materials)

\* what loadAllData finds when it reads the two ledger collections: whether
\* every item's quantity is the sum of the transactions of its material
reconciled(inv, txs) ==
  \A i \in DOMAIN inv :
    LET mine == SelectSeq(txs, LAMBDA tx : tx.materialId = inv[i].materialId)
    IN inv[i].quantity = SumSeq([k \in DOMAIN mine |-> mine[k].quantity])

\* forceRefresh: dropped while the captured syncStatus is 'syncing'
forceRefresh(ctx) ==
  IF closureSyncStatus = "syncing" THEN ctx
  ELSE [ctx EXCEPT !.inventory = loadAllData(@), !.refreshed = TRUE, !.refreshes = @ + 1,
                   !.reads = Append(@, reconciled(ctx.inventory, ctx.inventoryTransactions))]

\* seeded fault: only signals strictly before the watermark are ignored
handleInventoryUpdateStrict(ctx, event) ==
  IF event.timestamp # NoTimestamp /\ event.timestamp < ctx.lastUpdateTimestamp
  THEN ctx
  ELSE forceRefresh([ctx EXCEPT !.lastUpdateTimestamp =
                       IF event.timestamp # NoTimestamp THEN event.timestamp ELSE @])

\* handleInventoryUpdate: signals at or before the watermark are ignored
handleInventoryUpdate(ctx, event) ==
  IF event.timestamp # NoTimestamp /\ event.timestamp <= ctx.lastUpdateTimestamp
  THEN ctx
  ELSE forceRefresh([ctx EXCEPT !.lastUpdateTimestamp =
                       IF event.timestamp # NoTimestamp THEN event.timestamp ELSE @])

\* window.dispatchEvent('inventory-updated'): runs the provider's listener
dispatchEvent(ctx, event) ==
  handleInventoryUpdate([ctx EXCEPT !.dispatched = Append(@, event)], event)

\* seeded fault: the signal is dispatched before the id is looked up
inventoryServiceUpdateSignalsFirst(ctx, id, quantity) ==
  LET index == FindIndex({i \in DOMAIN ctx.inventory : ctx.inventory[i].id = id})
      c1 == dispatchEvent(ctx, [source |-> "localStorageService", timestamp |-> now])
  IN IF index = 0 THEN c1 ELSE [c1 EXCEPT !.inventory[index].quantity = quantity]

\* inventoryService.update(id, {quantity}): null when the id is unknown,
\* otherwise writes the record and dispatches inventory-updated
inventoryServiceUpdate(ctx, id, quantity) ==
  LET index == FindIndex({i \in DOMAIN ctx.inventory : ctx.inventory[i].id = id})
  IN IF index = 0 THEN ctx
     ELSE dispatchEvent([ctx EXCEPT !.inventory[index].quantity = quantity],
                        [source |-> "localStorageService", timestamp |-> now])

\* The re-render after a handler: when forceRefresh ran, refreshTrigger changed,
\* the effect re-installs the listeners and they capture the syncStatus of that
\* render, 'syncing' or 'synced' depending on when React renders.
Commit(ctx) ==
  /\ inventory' = ctx.inventory
  /\ inventoryTransactions' = ctx.inventoryTransactions
  /\ stockInItems' = ctx.stockInItems
  /\ lastUpdateTimestamp' = ctx.lastUpdateTimestamp
  /\ syncStatus' = IF ctx.refreshed THEN "synced" ELSE syncStatus
  /\ IF ctx.refreshed /\ syncStatus # "idle"
     THEN closureSyncStatus' \in {"syncing", "synced"}
     ELSE closureSyncStatus' = closureSyncStatus

Op(op, outcome) == [op |-> op, outcome |-> outcome]

\* ------------------------------------------------------- adjustInventory
\* seeded fault: the gate asks for the view permission
adjustOutcomeChecksView(itemId, quantity) ==
  IF ~hasPermission(currentUser, "inventory", "view") THEN "permission_denied"
  ELSE IF quantity = 0 THEN "zero"
  ELSE LET index == FindIndex({i \in DOMAIN inventory : inventory[i].id = itemId})
       IN IF index = 0 THEN "not_found"
          ELSE IF inventory[index].quantity + quantity < 0 THEN "insufficient"
          ELSE "ok"

\* seeded fault: the quantity === 0 early return is missing
adjustOutcomeNoZeroCheck(itemId, quantity) ==
  IF ~hasPermission(currentUser, "inventory", "edit") THEN "permission_denied"
  ELSE LET index == FindIndex({i \in DOMAIN inventory : inventory[i].id = itemId})
       IN IF index = 0 THEN "not_found"
          ELSE IF inventory[index].quantity + quantity < 0 THEN "insufficient"
          ELSE "ok"

\* seeded fault: the newQuantity < 0 check is missing
adjustOutcomeNoStockCheck(itemId, quantity) ==
  IF ~hasPermission(currentUser, "inventory", "edit") THEN "permission_denied"
  ELSE IF quantity = 0 THEN "zero"
  ELSE IF FindIndex({i \in DOMAIN inventory : inventory[i].id = itemId}) = 0 THEN "not_found"
  ELSE "ok"

adjustOutcome(itemId, quantity) ==
  IF ~hasPermission(currentUser, "inventory", "edit") THEN "permission_denied"
  ELSE IF quantity = 0 THEN "zero"
  ELSE LET index == FindIndex({i \in DOMAIN inventory : inventory[i].id = itemId})
       IN IF index = 0 THEN "not_found"
          ELSE IF inventory[index].quantity + quantity < 0 THEN "insufficient"
          ELSE "ok"

\* seeded fault: the typed quantity is stored as the new quantity
adjustApplySetsQuantity(ctx, itemId, quantity) ==
  LET index == FindIndex({i \in DOMAIN ctx.inventory : ctx.inventory[i].id = itemId})
      inventoryItem == ctx.inventory[index]
      c1 == inventoryServiceUpdate(ctx, itemId, quantity)
      c2 == [c1 EXCEPT !.inventoryTransactions =
               Create(@, [materialId |-> inventoryItem.materialId,
                          type |-> "adjustment",
                          quantity |-> quantity,
                          referenceId |-> NoOrder,
                          createdBy |-> "admin"])]
      c3 == dispatchEvent(c2, [source |-> "", timestamp |-> NoTimestamp])
  IN [c3 EXCEPT !.inventory = loadAllData(@)]

\* the body of the try block once the checks passed
adjustApply(ctx, itemId, quantity) ==
  LET index == FindIndex({i \in DOMAIN ctx.inventory : ctx.inventory[i].id = itemId})
      inventoryItem == ctx.inventory[index]
      newQuantity == inventoryItem.quantity + quantity
      c1 == inventoryServiceUpdate(ctx, itemId, newQuantity)
      c2 == [c1 EXCEPT !.inventoryTransactions =
               Create(@, [materialId |-> inventoryItem.materialId,
                          type |-> "adjustment",
                          quantity |-> quantity,
                          referenceId |-> NoOrder,
                          createdBy |-> "admin"])]
      c3 == dispatchEvent(c2, [source |-> "", timestamp |-> NoTimestamp])
  IN [c3 EXCEPT !.inventory = loadAllData(@)]

\* what one call leaves behind: the checks, then the try block or nothing
adjustResult(itemId, quantity) ==
  IF adjustOutcome(itemId, quantity) = "ok" THEN adjustApply(Ctx, itemId, quantity) ELSE Ctx

adjustInventory(itemId, quantity) ==
  /\ adjustOutcome(itemId, quantity) = "ok" => Len(inventoryTransactions) < MaxTx
  /\ Commit(adjustResult(itemId, quantity))
  /\ UNCHANGED <<users, materials, stockInOrders, orderIds, currentUser, pendingNotify, now>>

\* ------------------------------------------------------------ stock-in page
\* The lines a user can put on the stock-in form: the valid ones and one
\* representative of each way a line fails validation.
Line(materialId, quantity, unitPrice) ==
  [materialId |-> materialId, quantity |-> quantity, unitPrice |-> unitPrice]

InvalidLines == {Line(NoMaterial, 1, 1), Line("m1", 0, 1), Line("m1", 1, 0)}

ValidItemLists ==
  {<<Line("m1", 1, 1)>>,
   <<Line("m1", 1, 1), Line("m2", 2, 1)>>, <<Line("m1", 2, 1), Line("m1", 1, 1)>>}

InvalidItemLists ==
  {<<>>} \cup {<<l>> : l \in InvalidLines} \cup {<<Line("m1", 1, 1), Line("m2", 0, 1)>>}

Form(supplierId, orderDate, status, items) ==
  [supplierId |-> supplierId, orderDate |-> orderDate, status |-> status, items |-> items]

Forms ==
  {Form("s1", "d1", st, items) : st \in Statuses, items \in ValidItemLists}
    \cup {Form("s1", "d1", "completed", items) : items \in InvalidItemLists}
    \cup {Form("", "d1", "completed", <<Line("m1", 1, 1)>>),
          Form("s1", "", "completed", <<Line("m1", 1, 1)>>)}

\* seeded fault: only the first line of the form is validated
validateFormFirstLine(formData) ==
  /\ formData.supplierId # ""
  /\ formData.orderDate # ""
  /\ formData.items # <<>>
  /\ formData.items[1].materialId # NoMaterial
  /\ formData.items[1].quantity > 0
  /\ formData.items[1].unitPrice > 0

\* validateForm: supplier, date, at least one line, and every line complete
validateForm(formData) ==
  /\ formData.supplierId # ""
  /\ formData.orderDate # ""
  /\ formData.items # <<>>
  /\ \A i \in DOMAIN formData.items :
       /\ formData.items[i].materialId # NoMaterial
       /\ formData.items[i].quantity > 0
       /\ formData.items[i].unitPrice > 0

\* seeded fault: an item created for a material starts empty
updateInventoryCreatesEmpty(ctx, materialId, quantity, referenceId) ==
  LET index == FindIndex({i \in DOMAIN ctx.inventory : ctx.inventory[i].materialId = materialId})
      c1 == IF index # 0
            THEN inventoryServiceUpdate(ctx, ctx.inventory[index].id,
                                        ctx.inventory[index].quantity + quantity)
            ELSE [ctx EXCEPT !.inventory =
                    Create(@, [materialId |-> materialId, quantity |-> 0,
                               alertThreshold |-> 10])]
  IN [c1 EXCEPT !.inventoryTransactions =
        Create(@, [materialId |-> materialId,
                   type |-> "stock_in",
                   quantity |-> quantity,
                   referenceId |-> referenceId,
                   createdBy |-> "admin"])]

\* seeded fault: an existing item's quantity is overwritten, not increased
updateInventoryOverwrite(ctx, materialId, quantity, referenceId) ==
  LET index == FindIndex({i \in DOMAIN ctx.inventory : ctx.inventory[i].materialId = materialId})
      c1 == IF index # 0
            THEN inventoryServiceUpdate(ctx, ctx.inventory[index].id, quantity)
            ELSE [ctx EXCEPT !.inventory =
                    Create(@, [materialId |-> materialId, quantity |-> quantity,
                               alertThreshold |-> 10])]
  IN [c1 EXCEPT !.inventoryTransactions =
        Create(@, [materialId |-> materialId,
                   type |-> "stock_in",
                   quantity |-> quantity,
                   referenceId |-> referenceId,
                   createdBy |-> "admin"])]

\* updateInventory(materialId, quantity), with currentOrder?.id || '' given as
\* referenceId
updateInventory(ctx, materialId, quantity, referenceId) ==
  LET index == FindIndex({i \in DOMAIN ctx.inventory : ctx.inventory[i].materialId = materialId})
      c1 == IF index # 0
            THEN inventoryServiceUpdate(ctx, ctx.inventory[index].id,
                                        ctx.inventory[index].quantity + quantity)
            ELSE [ctx EXCEPT !.inventory =
                    Create(@, [materialId |-> materialId, quantity |-> quantity,
                               alertThreshold |-> 10])]
  IN [c1 EXCEPT !.inventoryTransactions =
        Create(@, [materialId |-> materialId,
                   type |-> "stock_in",
                   quantity |-> quantity,
                   referenceId |-> referenceId,
                   createdBy |-> "admin"])]

RECURSIVE saveItemsAnyStatus(_, _, _, _, _)
\* seeded fault: updateInventory is called whatever the status of the form
saveItemsAnyStatus(ctx, items, orderId, status, referenceId) ==
  IF items = <<>> THEN ctx
  ELSE LET item == Head(items)
       IN IF item.materialId = NoMaterial \/ item.quantity <= 0 \/ item.unitPrice <= 0
          THEN [ctx EXCEPT !.failed = TRUE]
          ELSE LET c1 == [ctx EXCEPT !.stockInItems =
                            Create(@, [orderId |-> orderId,
                                       materialId |-> item.materialId,
                                       quantity |-> item.quantity,
                                       unitPrice |-> item.unitPrice])]
               IN saveItemsAnyStatus(updateInventory(c1, item.materialId, item.quantity,
                                                     referenceId),
                                     Tail(items), orderId, status, referenceId)

RECURSIVE saveItems(_, _, _, _, _)
\* formData.items.forEach of saveStockInOrder: a throw ends the loop and keeps
\* what was written so far
saveItems(ctx, items, orderId, status, referenceId) ==
  IF items = <<>> THEN ctx
  ELSE LET item == Head(items)
       IN IF item.materialId = NoMaterial \/ item.quantity <= 0 \/ item.unitPrice <= 0
          THEN [ctx EXCEPT !.failed = TRUE]
          ELSE LET c1 == [ctx EXCEPT !.stockInItems =
                            Create(@, [orderId |-> orderId,
                                       materialId |-> item.materialId,
                                       quantity |-> item.quantity,
                                       unitPrice |-> item.unitPrice])]
                   c2 == IF status = "completed"
                         THEN updateInventory(c1, item.materialId, item.quantity, referenceId)
                         ELSE c1
               IN saveItems(c2, Tail(items), orderId, status, referenceId)

\* seeded fault: the line items are left behind
deleteItemsOfNone(items, orderId) == items

\* the existing line items of an order are deleted before the form's are saved
deleteItemsOf(items, orderId) == SelectSeq(items, LAMBDA it : it.orderId # orderId)

\* the try block of saveStockInOrder: the old line items of an edited order
\* are deleted, then every line of the form is saved
saveResult(formData, currentOrder) ==
  LET isEditing == currentOrder # NoOrder
      savedId == IF isEditing THEN currentOrder ELSE orderIds + 1
      ctx0 == IF isEditing
              THEN [Ctx EXCEPT !.stockInItems = deleteItemsOf(@, currentOrder)]
              ELSE Ctx
  IN saveItems(ctx0, formData.items, savedId, formData.status, currentOrder)

saveOutcome(formData, currentOrder) ==
  IF ~validateForm(formData) THEN "invalid"
  ELSE IF saveResult(formData, currentOrder).failed THEN "failed"
  ELSE "ok"

\* saveStockInOrder with the form as filled in; currentOrder = NoOrder when the
\* form was opened by openCreateModal, the edited order's id after openEditModal
saveStockInOrder(formData, currentOrder) ==
  LET isEditing == currentOrder # NoOrder
      savedId == IF isEditing THEN currentOrder ELSE orderIds + 1
      ctx1 == saveResult(formData, currentOrder)
      done == ~ctx1.failed
  IN IF ~validateForm(formData)
     THEN /\ Commit(Ctx)
          /\ UNCHANGED <<users, materials, stockInOrders, orderIds, currentUser, pendingNotify, now>>
     ELSE /\ ~isEditing => orderIds < MaxOrders
          /\ formData.status = "completed" =>
               Len(inventoryTransactions) + Len(formData.items) <= MaxTx
          /\ stockInOrders' =
               IF isEditing
               THEN [i \in DOMAIN stockInOrders |->
                       IF stockInOrders[i].id = currentOrder
                       THEN [stockInOrders[i] EXCEPT !.status = formData.status]
                       ELSE stockInOrders[i]]
               ELSE Append(stockInOrders, [id |-> savedId, status |-> formData.status])
          /\ orderIds' = IF isEditing THEN orderIds ELSE orderIds + 1
          /\ Commit(ctx1)
          /\ pendingNotify' = IF done /\ formData.status = "completed"
                              THEN Append(pendingNotify, now) ELSE pendingNotify
          /\ UNCHANGED <<users, materials, currentUser, now>>

\* the setTimeout(100) callback of a completed save: the 'stock-in' signal, then
\* the inventory collection is written back as read
stockInNotify(k) ==
  /\ k \in DOMAIN pendingNotify
  /\ now > pendingNotify[k]
  /\ Commit(dispatchEvent(Ctx, [source |-> "stock-in", timestamp |-> now]))
  /\ pendingNotify' = [i \in 1..(Len(pendingNotify) - 1) |->
                         IF i < k THEN pendingNotify[i] ELSE pendingNotify[i + 1]]
  /\ UNCHANGED <<users, materials, stockInOrders, orderIds, currentUser, now>>

\* deleteStockInOrder(id): permission, confirmation, line items, then the header
deleteOutcome(id, confirmed) ==
  IF ~hasPermission(currentUser, "stock_in", "delete") THEN "permission_denied"
  ELSE IF ~confirmed THEN "cancelled"
  ELSE IF \E i \in DOMAIN stockInOrders : stockInOrders[i].id = id THEN "ok"
  ELSE "failed"

\* seeded fault: the ledger entries that refer to the order go with it
deleteStockInOrderPurgesLedger(id, confirmed) ==
  LET acted == deleteOutcome(id, confirmed) \in {"ok", "failed"}
  IN /\ Commit(IF acted
               THEN [Ctx EXCEPT !.stockInItems = deleteItemsOf(@, id),
                                !.inventoryTransactions =
                                  SelectSeq(@, LAMBDA t : t.referenceId # id)]
               ELSE Ctx)
     /\ stockInOrders' = IF acted THEN Delete(stockInOrders, id) ELSE stockInOrders
     /\ UNCHANGED <<users, materials, orderIds, currentUser, pendingNotify, now>>

deleteStockInOrder(id, confirmed) ==
  LET acted == deleteOutcome(id, confirmed) \in {"ok", "failed"}
  IN /\ Commit(IF acted THEN [Ctx EXCEPT !.stockInItems = deleteItemsOf(@, id)] ELSE Ctx)
     /\ stockInOrders' = IF acted THEN Delete(stockInOrders, id) ELSE stockInOrders
     /\ UNCHANGED <<users, materials, orderIds, currentUser, pendingNotify, now>>

\* ------------------------------------------------------- other handlers
\* BasicData saveData, materials tab: a new material
createMaterial(m) ==
  /\ \A i \in DOMAIN materials : materials[i] # m
  /\ materials' = Append(materials, m)
  /\ Commit(Ctx)
  /\ UNCHANGED <<users, stockInOrders, orderIds, currentUser, pendingNotify, now>>

\* the 30 s interval and the window focus listener: forceRefresh
refreshTriggered(source) ==
  /\ Commit(forceRefresh(Ctx))
  /\ UNCHANGED <<users, materials, stockInOrders, orderIds, currentUser, pendingNotify, now>>

handleFocus == refreshTriggered("focus")

syncInterval == refreshTriggered("interval")

\* the refresh button: refreshInventory is loadAllData itself
refreshInventory ==
  /\ Commit([Ctx EXCEPT !.inventory = loadAllData(@)])
  /\ UNCHANGED <<users, materials, stockInOrders, orderIds, currentUser, pendingNotify, now>>

\* App.login: another user takes the session
User(role, permissions) == [role |-> role, isActive |-> TRUE, permissions |-> permissions]

SessionUsers ==
  {User("admin", DEFAULT_PERMISSIONS.admin),
   User("staff", DEFAULT_PERMISSIONS.staff),
   User("staff", [DEFAULT_PERMISSIONS.staff EXCEPT !.inventory = {"view", "edit"}]),
   User("staff", [DEFAULT_PERMISSIONS.staff EXCEPT !.inventory = {"view", "delete"}])}

login(user) ==
  /\ user # currentUser
  /\ currentUser' = user
  /\ Commit(Ctx)
  /\ UNCHANGED <<users, materials, stockInOrders, orderIds, pendingNotify, now>>

\* time passes
tick ==
  /\ now < MaxTime
  /\ now' = now + 1
  /\ Commit(Ctx)
  /\ UNCHANGED <<users, materials, stockInOrders, orderIds, currentUser, pendingNotify>>

\* ------------------------------------------------------------ specification
\* the effect of the first render: initLoad, then the listeners are installed
initLoad ==
  /\ syncStatus = "idle"
  /\ Commit([Ctx EXCEPT !.inventory = loadAllData(@), !.refreshed = TRUE])
  /\ UNCHANGED <<users, materials, stockInOrders, orderIds, currentUser, pendingNotify, now>>

\* initializeData has seeded the materials; nothing is mounted yet
Init ==
  /\ materials = <<"m1">>
  /\ inventory = <<>>
  /\ inventoryTransactions = <<>>
  /\ stockInOrders = <<>>
  /\ stockInItems = <<>>
  /\ orderIds = 0
  /\ users = <<DefaultAdmin>>
  /\ currentUser = User("admin", DEFAULT_PERMISSIONS.admin)
  /\ syncStatus = "idle"
  /\ closureSyncStatus = "idle"
  /\ lastUpdateTimestamp = 0
  /\ pendingNotify = <<>>
  /\ now = 1
  /\ last = Op("init", "ok")

ItemIds == 1..(Cardinality(Materials) + 1)

OrderRefs == {NoOrder} \cup {stockInOrders[i].id : i \in DOMAIN stockInOrders}

\* the material select of the form offers the stored materials only
OfferedForms ==
  {formData \in Forms :
     \A i \in DOMAIN formData.items :
       formData.items[i].materialId \in {NoMaterial} \cup {materials[j] : j \in DOMAIN materials}}

\* the handlers as the pages call them, with the call and its outcome observed
AdjustStep ==
  \E itemId \in ItemIds, quantity \in Deltas :
    /\ adjustInventory(itemId, quantity)
    /\ last' = Op("adjust", adjustOutcome(itemId, quantity))

SaveStep ==
  \E formData \in OfferedForms, currentOrder \in OrderRefs :
    /\ saveStockInOrder(formData, currentOrder)
    /\ last' = IF saveOutcome(formData, currentOrder) = "ok"
               THEN [op |-> "save", outcome |-> formData.status,
                     formData |-> formData, currentOrder |-> currentOrder]
               ELSE Op("save", saveOutcome(formData, currentOrder))

DeleteStep ==
  \E id \in 1..MaxOrders, confirmed \in BOOLEAN :
    /\ deleteStockInOrder(id, confirmed)
    /\ last' = Op("delete", deleteOutcome(id, confirmed))

NotifyStep == \E k \in DOMAIN pendingNotify : stockInNotify(k) /\ last' = Op("notify", "ok")

MaterialStep == \E m \in Materials : createMaterial(m) /\ last' = Op("material", "ok")

FocusStep == handleFocus /\ last' = Op("focus", "ok")

IntervalStep == syncInterval /\ last' = Op("interval", "ok")

RefreshStep == refreshInventory /\ last' = Op("refresh", "ok")

LoginStep == \E user \in SessionUsers : login(user) /\ last' = Op("login", "ok")

TickStep == tick /\ last' = Op("tick", "ok")

MountStep == initLoad /\ last' = Op("mount", "ok")

Mounted == syncStatus # "idle"

\* every handler of the inventory and stock-in pages, one user, the clock
\* standing still, calls not observed
Next ==
  \/ initLoad /\ UNCHANGED last
  \/ Mounted /\ UNCHANGED last
       /\ \E itemId \in ItemIds, quantity \in Deltas : adjustInventory(itemId, quantity)
  \/ Mounted /\ UNCHANGED last
       /\ \E formData \in OfferedForms, currentOrder \in OrderRefs :
            saveStockInOrder(formData, currentOrder)
  \/ Mounted /\ UNCHANGED last
       /\ \E id \in 1..MaxOrders, confirmed \in BOOLEAN : deleteStockInOrder(id, confirmed)
  \/ Mounted /\ UNCHANGED last /\ \E m \in Materials : createMaterial(m)
  \/ Mounted /\ UNCHANGED last /\ handleFocus
  \/ Mounted /\ UNCHANGED last /\ syncInterval
  \/ Mounted /\ UNCHANGED last /\ refreshInventory

Spec == Init /\ [][Next]_vars

\* the inventory page alone: adjustments, new materials, refreshes, the clock
NextAdjust ==
  \/ MountStep
  \/ Mounted /\ AdjustStep
  \/ Mounted /\ MaterialStep
  \/ Mounted /\ FocusStep
  \/ Mounted /\ RefreshStep
  \/ Mounted /\ TickStep

SpecAdjust == Init /\ [][NextAdjust]_vars

\* the stock-in page under the mounted provider
NextStockIn ==
  \/ MountStep
  \/ Mounted /\ SaveStep
  \/ Mounted /\ MaterialStep
  \/ Mounted /\ FocusStep

SpecStockIn == Init /\ [][NextStockIn]_vars

\* adjustments by whoever holds the session
NextAuth ==
  \/ MountStep
  \/ Mounted /\ LoginStep
  \/ Mounted /\ AdjustStep
  \/ Mounted /\ MaterialStep

SpecAuth == Init /\ [][NextAuth]_vars

\* ------------------------------------------------------------------ claims
ItemsOf(inv, m) == {i \in DOMAIN inv : inv[i].materialId = m}

TxQuantities(m) ==
  LET txs == SelectSeq(inventoryTransactions, LAMBDA tx : tx.materialId = m)
  IN [i \in DOMAIN txs |-> txs[i].quantity]

C2_NonNegative == \A i \in DOMAIN inventory : inventory[i].quantity >= 0

\* stock was received and a negative adjustment took the item back to zero
C2_Witness ==
  \E i \in DOMAIN inventory :
    /\ inventory[i].quantity = 0
    /\ \E k \in DOMAIN inventoryTransactions :
         /\ inventoryTransactions[k].type = "adjustment"
         /\ inventoryTransactions[k].quantity < 0
         /\ inventoryTransactions[k].materialId = inventory[i].materialId

\* C10 One InventoryItem per material: at most one item references a material;
\* a load creates, after the items already stored, one item with quantity 0
\* and alertThreshold 10 for every stored material lacking one, and a second
\* load over the same materials creates nothing.
C10_OneItemPerMaterial ==
  LET first == loadAllData(inventory)
      second == loadAllData(first)
  IN /\ \A m \in Materials : Cardinality(ItemsOf(inventory, m)) <= 1
     /\ SubSeq(first, 1, Len(inventory)) = inventory
     /\ \A j \in DOMAIN materials :
          /\ Cardinality(ItemsOf(first, materials[j])) = 1
          /\ ItemsOf(inventory, materials[j]) = {} =>
               \A i \in ItemsOf(first, materials[j]) :
                 first[i].quantity = 0 /\ first[i].alertThreshold = 10
     /\ Len(first) = Len(inventory)
          + Cardinality({j \in DOMAIN materials : ItemsOf(inventory, materials[j]) = {}})
     /\ second = first

\* the provider is mounted, stock has been booked, and a material added since
\* the last load still lacks its item
C10_Witness ==
  /\ Mounted
  /\ inventoryTransactions # <<>>
  /\ inventory # <<>>
  /\ \E j \in DOMAIN materials : ItemsOf(inventory, materials[j]) = {}

\* every user record the session can hold: nobody, and each role, active or
\* not, with the default lists of a role or with lists for some modules only
PermissionConfigs ==
  {DEFAULT_PERMISSIONS.admin, DEFAULT_PERMISSIONS.manager, DEFAULT_PERMISSIONS.staff,
   [inventory |-> {"view", "edit", "delete"}],
   [inventory |-> {}, users |-> {"manage_users"}]}

Users ==
  {NoUser} \cup
  {[role |-> role, isActive |-> isActive, permissions |-> permissions] :
     role \in {"admin", "manager", "staff"}, isActive \in BOOLEAN,
     permissions \in PermissionConfigs}

\* a component asks usePermissions().hasPermission(module, permission)
PermissionCheck(module, permission) ==
  /\ last' = [op |-> "hasPermission", module |-> module, permission |-> permission,
              outcome |-> hasPermission(currentUser, module, permission)]
  /\ UNCHANGED <<users, materials, inventory, inventoryTransactions, stockInOrders, stockInItems,
                 orderIds, currentUser, syncStatus, closureSyncStatus, lastUpdateTimestamp,
                 pendingNotify, now>>

\* the session restored from localStorage 'currentUser' holds any user record
InitPermissions ==
  /\ materials = <<"m1">>
  /\ inventory = <<>>
  /\ inventoryTransactions = <<>>
  /\ stockInOrders = <<>>
  /\ stockInItems = <<>>
  /\ orderIds = 0
  /\ users = <<DefaultAdmin>>
  /\ currentUser \in Users
  /\ syncStatus = "idle"
  /\ closureSyncStatus = "idle"
  /\ lastUpdateTimestamp = 0
  /\ pendingNotify = <<>>
  /\ now = 1
  /\ last = Op("init", "ok")

NextPermissions ==
  \E module \in Modules, permission \in Permissions : PermissionCheck(module, permission)

SpecPermissions == InitPermissions /\ [][NextPermissions]_vars

\* ------------------------------------------------------- low-stock alerts
\* Array.prototype.slice(0, n)
Slice(items, n) == SubSeq(items, 1, IF Len(items) < n THEN Len(items) ELSE n)

\* the alert shown for an item (the material's name and unit left out)
Alert(item) == [id |-> item.id, current |-> item.quantity, threshold |-> item.alertThreshold]

\* .filter(item => item.quantity <= item.alertThreshold).map(...)
lowStock(inventories) ==
  LET low == SelectSeq(inventories, LAMBDA item : item.quantity <= item.alertThreshold)
  IN [i \in DOMAIN low |-> Alert(low[i])]

RECURSIVE InsertByCurrent(_, _)
\* the place a stable ascending sort on current gives an alert
InsertByCurrent(sorted, alert) ==
  IF sorted = <<>> THEN <<alert>>
  ELSE IF alert.current < Head(sorted).current THEN <<alert>> \o sorted
  ELSE <<Head(sorted)>> \o InsertByCurrent(Tail(sorted), alert)

RECURSIVE SortByCurrent(_)
\* .sort((a, b) => a.current - b.current)
SortByCurrent(alerts) ==
  IF alerts = <<>> THEN <<>>
  ELSE InsertByCurrent(SortByCurrent(SubSeq(alerts, 1, Len(alerts) - 1)), alerts[Len(alerts)])

\* LowStockAlerts of the inventory page: getLowStockAlerts(), of which the
\* component renders lowStockItems.slice(0,5)
getLowStockAlerts(inventories) == SortByCurrent(lowStock(inventories))

LowStockAlerts(inventories) == Slice(getLowStockAlerts(inventories), 5)

\* loadDashboardData: the alerts kept in the Dashboard's state; the stat card
\* shows their number
loadDashboardData(inventories) == Slice(lowStock(inventories), 5)

\* the stores a refresh can find: up to six materials, each with its item
AlertMaterials == <<"m1", "m2", "m3", "m4", "m5", "m6">>

AlertInventories ==
  UNION {[1..n -> {0, 10, 11}] : n \in 0..Len(AlertMaterials)}

InitAlerts ==
  /\ \E quantities \in AlertInventories :
       /\ materials = SubSeq(AlertMaterials, 1, Len(quantities))
       /\ inventory = [i \in DOMAIN quantities |->
                         [id |-> i, materialId |-> AlertMaterials[i],
                          quantity |-> quantities[i], alertThreshold |-> 10]]
  /\ inventoryTransactions = <<>>
  /\ stockInOrders = <<>>
  /\ stockInItems = <<>>
  /\ orderIds = 0
  /\ users = <<DefaultAdmin>>
  /\ currentUser = User("admin", DEFAULT_PERMISSIONS.admin)
  /\ syncStatus = "synced"
  /\ closureSyncStatus = "idle"
  /\ lastUpdateTimestamp = 0
  /\ pendingNotify = <<>>
  /\ now = 1
  /\ last = Op("init", "ok")

\* the Dashboard refreshes and shows its alert list and count
DashboardStep ==
  /\ last' = [op |-> "dashboard", alerts |-> loadDashboardData(inventory),
              count |-> Len(loadDashboardData(inventory))]
  /\ UNCHANGED <<users, materials, inventory, inventoryTransactions, stockInOrders, stockInItems,
                 orderIds, currentUser, syncStatus, closureSyncStatus, lastUpdateTimestamp,
                 pendingNotify, now>>

\* the inventory page renders its alert list from the refreshed inventories
AlertListStep ==
  /\ last' = [op |-> "alerts", alerts |-> LowStockAlerts(inventory),
              count |-> Len(LowStockAlerts(inventory))]
  /\ UNCHANGED <<users, materials, inventory, inventoryTransactions, stockInOrders, stockInItems,
                 orderIds, currentUser, syncStatus, closureSyncStatus, lastUpdateTimestamp,
                 pendingNotify, now>>

NextAlerts == DashboardStep \/ AlertListStep

SpecAlerts == InitAlerts /\ [][NextAlerts]_vars

\* ------------------------------------------------- the provider's signals
\* what a handler's turn showed the window: the signals dispatched, the loads
\* forceRefresh started before any of them completed, the ledger writes made
Turn(op, ctx, mutations) ==
  [op |-> op, outcome |-> "ok", dispatched |-> ctx.dispatched,
   refreshes |-> ctx.refreshes, mutations |-> mutations]

\* the forms that receive stock: valid, completed, opened by openCreateModal
ReceivingForms ==
  {formData \in OfferedForms :
     formData.status = "completed" /\ saveOutcome(formData, NoOrder) = "ok"}

AdjustTurn ==
  \E itemId \in ItemIds, quantity \in Deltas :
    /\ adjustOutcome(itemId, quantity) = "ok"
    /\ adjustInventory(itemId, quantity)
    /\ last' = Turn("adjust", adjustResult(itemId, quantity), 1)

ReceiveTurn ==
  \E formData \in ReceivingForms :
    /\ saveStockInOrder(formData, NoOrder)
    /\ last' = Turn("receive", saveResult(formData, NoOrder), Len(formData.items))

NotifyTurn ==
  \E k \in DOMAIN pendingNotify :
    /\ stockInNotify(k)
    /\ last' = Turn("notify", dispatchEvent(Ctx, [source |-> "stock-in", timestamp |-> now]), 0)

IntervalTurn == syncInterval /\ last' = Turn("interval", forceRefresh(Ctx), 0)

FocusTurn == handleFocus /\ last' = Turn("focus", forceRefresh(Ctx), 0)

\* the provider under the pages that write the ledger, the clock running
NextSync ==
  \/ MountStep
  \/ Mounted /\ AdjustTurn
  \/ Mounted /\ ReceiveTurn
  \/ Mounted /\ NotifyTurn
  \/ Mounted /\ IntervalTurn
  \/ Mounted /\ FocusTurn
  \/ Mounted /\ MaterialStep
  \/ Mounted /\ TickStep

SpecSync == Init /\ [][NextSync]_vars

\* C3 A rejected adjustment changes nothing: when adjustInventory is called with
\* delta 0, with an item id no stored item carries, or with a delta that would
\* take the item's quantity below 0, the inventory and inventoryTransactions
\* collections are after the call what they were before it, and the call
\* dispatched no inventory-updated signal.
C3_RejectedAdjustment ==
  [][\A itemId \in ItemIds, quantity \in Deltas :
       LET held == {i \in DOMAIN inventory : inventory[i].id = itemId}
           rejected == \/ quantity = 0
                       \/ held = {}
                       \/ \E i \in held : inventory[i].quantity + quantity < 0
       IN (rejected /\ adjustInventory(itemId, quantity) /\ last'.op = "adjust") =>
            /\ inventory' = inventory
            /\ inventoryTransactions' = inventoryTransactions
            /\ adjustResult(itemId, quantity).dispatched = <<>>
            /\ last'.outcome \in {"zero", "not_found", "insufficient"}]_vars

\* an adjustment was just refused for lack of stock, on an item holding stock
C3_Witness ==
  /\ last = Op("adjust", "insufficient")
  /\ \E i \in DOMAIN inventory : inventory[i].quantity = 1
  /\ inventoryTransactions # <<>>

\* C7 Effect of a successful adjustment: a permitted adjustInventory with a
\* delta other than 0, the id of a stored item and current + delta >= 0 sets
\* that item's quantity to current + delta, leaves every other stored item as
\* it was, and appends exactly one transaction of type adjustment carrying the
\* signed delta and the item's materialId.
C7_SuccessfulAdjustment ==
  [][\A itemId \in ItemIds, quantity \in Deltas :
       \A index \in {i \in DOMAIN inventory : inventory[i].id = itemId} :
         (/\ hasPermission(currentUser, "inventory", "edit")
          /\ quantity # 0
          /\ inventory[index].quantity + quantity >= 0
          /\ adjustInventory(itemId, quantity)
          /\ last'.op = "adjust") =>
            /\ last'.outcome = "ok"
            /\ Len(inventory') >= Len(inventory)
            /\ inventory'[index] =
                 [inventory[index] EXCEPT !.quantity = inventory[index].quantity + quantity]
            /\ \A i \in DOMAIN inventory : i # index => inventory'[i] = inventory[i]
            /\ \A i \in DOMAIN inventory' : i \notin DOMAIN inventory => inventory'[i].quantity = 0
            /\ Len(inventoryTransactions') = Len(inventoryTransactions) + 1
            /\ SubSeq(inventoryTransactions', 1, Len(inventoryTransactions))
                 = inventoryTransactions
            /\ LET tx == inventoryTransactions'[Len(inventoryTransactions')]
               IN /\ tx.type = "adjustment"
                  /\ tx.quantity = quantity
                  /\ tx.materialId = inventory[index].materialId]_vars

\* a negative adjustment just went through while another item is stored
C7_Witness ==
  /\ last = Op("adjust", "ok")
  /\ Len(inventory) = 2
  /\ Len(inventoryTransactions) = 2
  /\ inventoryTransactions[2].type = "adjustment"
  /\ inventoryTransactions[2].quantity = -1
  /\ \E i \in DOMAIN inventory :
       inventory[i].materialId = inventoryTransactions[2].materialId /\ inventory[i].quantity = 0

\* C4 Status gating: a stock-in save (create or edit) whose status is draft or
\* cancelled writes the order header and the line items of the form and leaves
\* the inventory and inventoryTransactions collections as they were; a save
\* that changes them has status completed.
C4_StatusGating ==
  [][(last'.op = "save" /\ last'.outcome # "completed") =>
       /\ inventory' = inventory
       /\ inventoryTransactions' = inventoryTransactions
       /\ last'.outcome \in {"draft", "cancelled"} =>
            LET formData == last'.formData
                savedId == IF last'.currentOrder = NoOrder THEN orderIds' ELSE last'.currentOrder
                written == SelectSeq(stockInItems', LAMBDA it : it.orderId = savedId)
            IN /\ formData.status = last'.outcome
               /\ \E i \in DOMAIN stockInOrders' :
                    stockInOrders'[i] = [id |-> savedId, status |-> formData.status]
               /\ Len(written) = Len(formData.items)
               /\ \A k \in DOMAIN written :
                    /\ written[k].materialId = formData.items[k].materialId
                    /\ written[k].quantity = formData.items[k].quantity
                    /\ written[k].unitPrice = formData.items[k].unitPrice]_vars

\* an order that had been completed was just edited to cancelled
C4_Witness ==
  /\ last.op = "save" /\ last.outcome = "cancelled" /\ last.currentOrder # NoOrder
  /\ stockInItems # <<>>
  /\ inventoryTransactions # <<>>
  /\ \E i \in DOMAIN stockInOrders : stockInOrders[i].status = "cancelled"

\* C5 Effect of receiving stock: a completed stock-in save applies every line
\* (material m, quantity q): a material without an item gets one with
\* alertThreshold 10 holding what its lines received, an existing item's
\* quantity grows by exactly what its lines received and nothing else of it
\* changes, items of other materials keep their quantity, and one stock_in
\* transaction with quantity q and materialId m is appended per line, in order.
C5_ReceivingStock ==
  [][(last'.op = "save" /\ last'.outcome = "completed") =>
            LET items == last'.formData.items
                Received(m) ==
                  LET lines == SelectSeq(items, LAMBDA l : l.materialId = m)
                  IN SumSeq([k \in DOMAIN lines |-> lines[k].quantity])
                n == Len(inventoryTransactions)
            IN /\ Len(inventory') >= Len(inventory)
               /\ \A i \in DOMAIN inventory :
                    inventory'[i] = [inventory[i] EXCEPT
                                      !.quantity = @ + Received(inventory[i].materialId)]
               /\ \A i \in DOMAIN inventory' : i \notin DOMAIN inventory =>
                    /\ inventory'[i].quantity = Received(inventory'[i].materialId)
                    /\ inventory'[i].alertThreshold = 10
               /\ \A k \in DOMAIN items : ItemsOf(inventory', items[k].materialId) # {}
               /\ Len(inventoryTransactions') = n + Len(items)
               /\ SubSeq(inventoryTransactions', 1, n) = inventoryTransactions
               /\ \A k \in DOMAIN items :
                    /\ inventoryTransactions'[n + k].type = "stock_in"
                    /\ inventoryTransactions'[n + k].quantity = items[k].quantity
                    /\ inventoryTransactions'[n + k].materialId = items[k].materialId]_vars

\* a completed order with two lines of one material was just saved
C5_Witness ==
  /\ last.op = "save" /\ last.outcome = "completed"
  /\ Len(inventoryTransactions) = 2
  /\ inventoryTransactions[1].quantity = 2
  /\ inventoryTransactions[2].quantity = 1
  /\ inventoryTransactions[1].materialId = inventoryTransactions[2].materialId
  /\ \E i \in DOMAIN inventory :
       /\ inventory[i].materialId = inventoryTransactions[1].materialId
       /\ inventory[i].quantity = 3

\* C6 Reference of a receipt: every stock_in transaction appended by a completed
\* stock-in save carries as referenceId the id of the order saved, when an
\* existing order is edited and when the order is created by that save.
C6_ReferenceId ==
  [][(last'.op = "save" /\ last'.outcome = "completed") =>
            LET savedId == IF last'.currentOrder = NoOrder THEN orderIds' ELSE last'.currentOrder
            IN \A k \in DOMAIN inventoryTransactions' :
                 k > Len(inventoryTransactions) =>
                   inventoryTransactions'[k].referenceId = savedId]_vars

\* C8 Permission gate on adjustment, as claimed: an adjustment attempted by a
\* staff user without the delete permission on module inventory is rejected
\* as permission-denied and writes nothing, whatever else the user holds
\* (stated for the attempts nothing else would reject: a stored item, a delta
\* other than 0, enough stock).
C8_GateOnDelete ==
  [][\A itemId \in ItemIds, quantity \in Deltas :
       \A index \in {i \in DOMAIN inventory : inventory[i].id = itemId} :
         (/\ currentUser.role = "staff"
          /\ "delete" \notin currentUser.permissions.inventory
          /\ quantity # 0
          /\ inventory[index].quantity + quantity >= 0
          /\ adjustInventory(itemId, quantity)
          /\ last'.op = "adjust") =>
            /\ last'.outcome = "permission_denied"
            /\ inventory' = inventory
            /\ inventoryTransactions' = inventoryTransactions]_vars

\* C8 Permission gate on adjustment, amended: an adjustment attempted by a
\* staff user without the edit permission on module inventory is rejected as
\* permission-denied and writes nothing to inventory or inventoryTransactions,
\* whatever other permissions that user holds on the module.
C8_GateOnEdit ==
  [][(/\ last'.op = "adjust"
      /\ currentUser.role = "staff"
      /\ "edit" \notin currentUser.permissions.inventory) =>
        /\ last'.outcome = "permission_denied"
        /\ inventory' = inventory
        /\ inventoryTransactions' = inventoryTransactions]_vars

\* a staff user holding view and delete, not edit, was just refused
C8_Witness ==
  /\ last = Op("adjust", "permission_denied")
  /\ currentUser.role = "staff"
  /\ currentUser.permissions.inventory = {"view", "delete"}
  /\ \E i \in DOMAIN inventory : inventory[i].quantity > 0

\* C9 hasPermission precedence: false for an absent or inactive user, admin
\* included; otherwise true for role admin, whatever the module, the
\* permission and the configured lists; otherwise true exactly when the
\* permission is in the user's list for the module, false when the module has
\* no list.
C9_Precedence ==
  last.op = "hasPermission" =>
    LET present == currentUser # NoUser
    IN /\ ~present => last.outcome = FALSE
       /\ present /\ ~currentUser.isActive => last.outcome = FALSE
       /\ present /\ currentUser.isActive /\ currentUser.role = "admin" =>
            last.outcome = TRUE
       /\ present /\ currentUser.isActive /\ currentUser.role # "admin" =>
            last.outcome = /\ last.module \in DOMAIN currentUser.permissions
                           /\ last.permission \in currentUser.permissions[last.module]

\* an inactive admin was just refused a permission the admin defaults list
C9_Witness ==
  /\ last.op = "hasPermission"
  /\ currentUser # NoUser
  /\ currentUser.role = "admin"
  /\ ~currentUser.isActive
  /\ last.module = "inventory" /\ last.permission = "edit"
  /\ last.outcome = FALSE

\* C11 Low-stock set correctness: after a refresh an InventoryItem is in the
\* alert list shown (inventory page list, Dashboard list) exactly when its
\* quantity <= its alertThreshold, and the Dashboard count is the number of
\* such items, for any number of inventory items.
C11_LowStockSet ==
  last.op \in {"dashboard", "alerts"} =>
    LET low == {i \in DOMAIN inventory : inventory[i].quantity <= inventory[i].alertThreshold}
    IN /\ \A i \in DOMAIN inventory :
            (\E k \in DOMAIN last.alerts : last.alerts[k].id = inventory[i].id) <=> i \in low
       /\ last.op = "dashboard" => last.count = Cardinality(low)

\* the signals that carry a timestamp: those of inventoryService.update and
\* the one of a completed stock-in
TimedSignals ==
  {[source |-> source, timestamp |-> t] :
     source \in {"localStorageService", "stock-in"}, t \in 1..MaxTime}

\* C12 Duplicate-signal suppression: of two signals reaching the provider, the
\* second with a timestamp at or before the first's, at most one triggers a
\* refresh: the second is ignored and leaves the watermark as it was; and no
\* step of the provider ever lowers the watermark.
C12_DuplicateSuppression ==
  [][/\ lastUpdateTimestamp' >= lastUpdateTimestamp
     /\ \A first, second \in TimedSignals :
          second.timestamp <= first.timestamp =>
            LET c1 == dispatchEvent(Ctx, first)
                c2 == dispatchEvent(c1, second)
            IN /\ c2.refreshes = c1.refreshes
               /\ c2.refreshes <= 1
               /\ c2.lastUpdateTimestamp = c1.lastUpdateTimestamp
               /\ c2.inventory = c1.inventory
               /\ c1.lastUpdateTimestamp >= lastUpdateTimestamp]_vars

\* a completed stock-in of two lines on a stored item: both signals carry the
\* same millisecond, the first one refreshed, the second was ignored
C12_Witness ==
  /\ last.op = "receive"
  /\ Len(last.dispatched) = 2
  /\ last.dispatched[2].timestamp <= last.dispatched[1].timestamp
  /\ last.refreshes = 1
  /\ lastUpdateTimestamp = last.dispatched[1].timestamp

\* C13 Serialized refresh: whatever triggers arrive while a refresh has not
\* completed, no second load is started: one turn of the window (a handler up
\* to the completion of the refresh it started) sees at most one load started
\* by forceRefresh.
C13_SerializedRefresh ==
  last.op \in {"adjust", "receive", "notify", "interval", "focus"} => last.refreshes <= 1

\* the signals of a turn that carry both a source tag and a timestamp
Tagged(signals) == SelectSeq(signals, LAMBDA e : e.source # "" /\ e.timestamp # NoTimestamp)

\* C14 Signal on change: every ledger mutation of a completed stock-in (one per
\* applied line, a line creating the item included) and every manual adjustment
\* dispatches a signal with a source tag and a timestamp, and the timestamps of
\* successive signals strictly increase.
C14_SignalPerMutation ==
  last.op \in {"adjust", "receive"} =>
    LET tagged == Tagged(last.dispatched)
    IN /\ Len(tagged) >= last.mutations
       /\ \A j, k \in DOMAIN tagged : j < k => tagged[j].timestamp < tagged[k].timestamp

\* C15 Backstop convergence: a firing of the periodic timer between turns, when
\* every earlier refresh has completed, reloads the inventory from the store.
C15_BackstopReload ==
  last.op = "interval" => last.refreshes = 1

\* C16 Append-only transaction log: every step of every handler (adjustment,
\* stock-in create and edit, stock-in delete, the refreshes) leaves
\* inventoryTransactions as it was or with records appended; no record already
\* in the log is changed or removed.
C16_AppendOnly ==
  [][/\ Len(inventoryTransactions') >= Len(inventoryTransactions)
     /\ SubSeq(inventoryTransactions', 1, Len(inventoryTransactions)) = inventoryTransactions]_vars

\* the order whose edit received stock has been deleted; its entry is still there
C16_Witness ==
  /\ orderIds = 1
  /\ stockInOrders = <<>>
  /\ \E i \in DOMAIN inventoryTransactions :
       /\ inventoryTransactions[i].type = "stock_in"
       /\ inventoryTransactions[i].referenceId = 1

\* ------------------------------------------------------------ user service
MaxUsers == 2       \* most User records ever stored at once

Usernames == {"admin", "u1"}

Roles == {"admin", "staff"}

UserIds == 1..(MaxUsers + 1)

generateDefaultPermissions(role) == DEFAULT_PERMISSIONS[role]

\* userData as UserForm.handleSubmit hands it to onSave
UserData(username, role, isActive) ==
  [username |-> username, role |-> role, isActive |-> isActive,
   permissions |-> generateDefaultPermissions(role)]

UserDatas == {UserData(username, role, isActive) :
                username \in Usernames, role \in Roles, isActive \in BOOLEAN}

\* Partial<User>, one field at a time
PartialUserDatas ==
  {[username |-> username] : username \in Usernames}
    \cup {[role |-> role] : role \in Roles}
    \cup {[isActive |-> isActive] : isActive \in BOOLEAN}

\* index of the first user with the username, 0 for null
getUserByUsername(us, username) ==
  FindIndex({i \in DOMAIN us : us[i].username = username})

getUserById(us, id) == FindIndex({i \in DOMAIN us : us[i].id = id})

\* seeded fault: createUser does not look for the username
createUserOutcomeUnchecked(us, userData) == "ok"

\* createUser throws when getUserByUsername finds the username
createUserOutcome(us, userData) ==
  IF getUserByUsername(us, userData.username) # 0 THEN "duplicate" ELSE "ok"

createUser(us, userData) ==
  IF createUserOutcome(us, userData) = "duplicate" THEN us ELSE Create(us, userData)

\* updateUser: null for an unknown id, otherwise the fields given overwrite
\* the stored ones
updateUser(us, id, userData) ==
  LET index == getUserById(us, id)
  IN IF index = 0 THEN us ELSE [us EXCEPT ![index] = userData @@ @]

deleteUser(us, id) == Delete(us, id)

updateUserPermissions(us, id, permissions) ==
  updateUser(us, id, [permissions |-> permissions])

toggleUserStatus(us, id) ==
  LET index == getUserById(us, id)
  IN IF index = 0 THEN us ELSE updateUser(us, id, [isActive |-> ~us[index].isActive])

initializeDefaultAdmin(us) ==
  IF us = <<>> THEN createUser(us, UserData("admin", "admin", TRUE)) ELSE us

\* what a call of updateUser, toggleUserStatus or deleteUser returns
found(us, id) == IF getUserById(us, id) = 0 THEN "null" ELSE "ok"

\* the calls of the service leave everything but the users collection alone
ServiceCall(us, call) ==
  /\ users' = us
  /\ last' = call
  /\ UNCHANGED <<materials, inventory, inventoryTransactions, stockInOrders, stockInItems,
                 orderIds, currentUser, syncStatus, closureSyncStatus, lastUpdateTimestamp,
                 pendingNotify, now>>

CreateUserStep ==
  \E userData \in UserDatas :
    /\ createUserOutcome(users, userData) = "ok" => Len(users) < MaxUsers
    /\ ServiceCall(createUser(users, userData),
                   [op |-> "createUser", outcome |-> createUserOutcome(users, userData),
                    username |-> userData.username])

UpdateUserStep ==
  \E id \in UserIds, userData \in PartialUserDatas :
    ServiceCall(updateUser(users, id, userData), Op("updateUser", found(users, id)))

UpdateUserPermissionsStep ==
  \E id \in UserIds, role \in Roles :
    ServiceCall(updateUserPermissions(users, id, generateDefaultPermissions(role)),
                Op("updateUserPermissions", found(users, id)))

ToggleUserStatusStep ==
  \E id \in UserIds :
    ServiceCall(toggleUserStatus(users, id), Op("toggleUserStatus", found(users, id)))

DeleteUserStep ==
  \E id \in UserIds :
    ServiceCall(deleteUser(users, id), Op("deleteUser", found(users, id)))

InitializeDefaultAdminStep ==
  ServiceCall(initializeDefaultAdmin(users), Op("initializeDefaultAdmin", "ok"))

\* localStorage without a 'users' key, nobody logged in
InitUserService ==
  /\ materials = <<"m1">>
  /\ inventory = <<>>
  /\ inventoryTransactions = <<>>
  /\ stockInOrders = <<>>
  /\ stockInItems = <<>>
  /\ orderIds = 0
  /\ users = <<>>
  /\ currentUser = NoUser
  /\ syncStatus = "idle"
  /\ closureSyncStatus = "idle"
  /\ lastUpdateTimestamp = 0
  /\ pendingNotify = <<>>
  /\ now = 1
  /\ last = Op("init", "ok")

\* the methods of UserService, called in any order with any arguments
NextUserService ==
  \/ CreateUserStep
  \/ UpdateUserStep
  \/ UpdateUserPermissionsStep
  \/ ToggleUserStatusStep
  \/ DeleteUserStep
  \/ InitializeDefaultAdminStep

SpecUserService == InitUserService /\ [][NextUserService]_vars

\* --------------------------------------------------- login and Users pages
\* a handler of the two pages: the users collection, the session, the call
PageCall(us, user, call) ==
  /\ users' = us
  /\ currentUser' = user
  /\ last' = call
  /\ UNCHANGED <<materials, inventory, inventoryTransactions, stockInOrders, stockInItems,
                 orderIds, syncStatus, closureSyncStatus, lastUpdateTimestamp,
                 pendingNotify, now>>

\* the effect of the Login page
LoginMountStep ==
  PageCall(initializeDefaultAdmin(users), currentUser, Op("initializeDefaultAdmin", "ok"))

\* Login.handleLogin with the right password
handleLoginOutcome(username) ==
  LET index == getUserByUsername(users, username)
  IN IF index = 0 THEN "unknown"
     ELSE IF ~users[index].isActive THEN "disabled"
     ELSE "ok"

HandleLoginStep ==
  \E username \in Usernames :
    PageCall(users,
             IF handleLoginOutcome(username) = "ok"
             THEN users[getUserByUsername(users, username)] ELSE currentUser,
             Op("handleLogin", handleLoginOutcome(username)))

LogoutStep ==
  /\ currentUser # NoUser
  /\ PageCall(users, NoUser, Op("logout", "ok"))

\* the Users page lists the users once its effect found manage_users
Listed == currentUser # NoUser /\ hasPermission(currentUser, "users", "manage_users")

\* the effect of the Users page
UsersMountStep ==
  /\ Listed
  /\ PageCall(initializeDefaultAdmin(users), currentUser, Op("initializeDefaultAdmin", "ok"))

\* saveUser from the create modal
SaveNewUserStep ==
  \E userData \in UserDatas :
    /\ Listed
    /\ createUserOutcome(users, userData) = "ok" => Len(users) < MaxUsers
    /\ PageCall(createUser(users, userData), currentUser,
                Op("saveUser", createUserOutcome(users, userData)))

\* saveUser from the edit modal: the username field is disabled, role, active
\* flag and permissions are the form's
SaveEditedUserStep ==
  \E i \in DOMAIN users, role \in Roles, isActive \in BOOLEAN :
    /\ Listed
    /\ hasPermission(currentUser, "users", "edit")
    /\ PageCall(updateUser(users, users[i].id,
                           [username |-> users[i].username, role |-> role,
                            isActive |-> isActive, permissions |-> users[i].permissions]),
                currentUser, Op("saveUser", "ok"))

\* toggleUserStatus of the page: not on the logged-in user
Users_toggleUserStatus ==
  \E i \in DOMAIN users :
    /\ Listed
    /\ hasPermission(currentUser, "users", "edit")
    /\ PageCall(IF users[i].id = currentUser.id THEN users
                ELSE toggleUserStatus(users, users[i].id),
                currentUser,
                Op("toggleUserStatus", IF users[i].id = currentUser.id THEN "self" ELSE "ok"))

\* deleteUser of the page: permission, confirmation, not the logged-in user
Users_deleteUser ==
  \E i \in DOMAIN users, confirmed \in BOOLEAN :
    /\ Listed
    /\ hasPermission(currentUser, "users", "delete")
    /\ LET acted == confirmed /\ users[i].id # currentUser.id
       IN PageCall(IF acted THEN deleteUser(users, users[i].id) ELSE users,
                   currentUser,
                   Op("deleteUser", IF ~confirmed THEN "cancelled"
                                    ELSE IF acted THEN "ok" ELSE "self"))

NextUsers ==
  \/ LoginMountStep
  \/ HandleLoginStep
  \/ LogoutStep
  \/ UsersMountStep
  \/ SaveNewUserStep
  \/ SaveEditedUserStep
  \/ Users_toggleUserStatus
  \/ Users_deleteUser

SpecUsers == InitUserService /\ [][NextUsers]_vars

\* C17 Duplicate username on create: createUser with the username of a stored
\* user fails as a duplicate and leaves the users collection, the stored record
\* included, as it was.
C17_DuplicateUsername ==
  [][(last'.op = "createUser" /\ getUserByUsername(users, last'.username) # 0) =>
       (last'.outcome = "duplicate" /\ users' = users)]_vars

\* the default admin is stored, a second createUser of "admin" was refused
C17_Witness ==
  /\ last = [op |-> "createUser", outcome |-> "duplicate", username |-> "admin"]
  /\ users = <<DefaultAdmin>>

\* C18 Username uniqueness: in every state reached by calls of createUser,
\* updateUser, updateUserPermissions, toggleUserStatus, deleteUser and
\* initializeDefaultAdmin no two User records share a username.
C18_UniqueUsernames ==
  \A i, j \in DOMAIN users : users[i].username = users[j].username => i = j

\* C19 Active admin: after initializeDefaultAdmin, also when it runs again
\* after users were created, edited, toggled and deleted on the Users page, at
\* least one user has role admin and is active.
C19_ActiveAdmin ==
  last.op = "initializeDefaultAdmin" =>
    \E i \in DOMAIN users : users[i].role = "admin" /\ users[i].isActive

\* ------------------------------------------------------------ record store
\* what delete(id) returns: whether the filtered list is shorter
deleteReturns(items, id) == Len(Delete(items, id)) # Len(items)

\* inventoryService.update(id, {quantity}) called with any id
StoreUpdateStep ==
  \E id \in ItemIds, quantity \in 0..1 :
    LET ctx == inventoryServiceUpdate(Ctx, id, quantity)
    IN /\ Commit(ctx)
       /\ last' = [op |-> "update", id |-> id, dispatched |-> ctx.dispatched,
                   returned |-> IF \E i \in DOMAIN inventory : inventory[i].id = id
                                THEN "item" ELSE "null"]
       /\ UNCHANGED <<users, materials, stockInOrders, orderIds, currentUser, pendingNotify, now>>

\* inventoryService.delete(id) called with any id
StoreDeleteStep ==
  \E id \in ItemIds :
    /\ Commit([Ctx EXCEPT !.inventory = Delete(@, id)])
    /\ last' = [op |-> "delete", id |-> id, dispatched |-> <<>>,
                returned |-> deleteReturns(inventory, id)]
    /\ UNCHANGED <<users, materials, stockInOrders, orderIds, currentUser, pendingNotify, now>>

\* the inventory collection under update and delete, the provider listening
NextRecordStore ==
  \/ MountStep
  \/ Mounted /\ StoreUpdateStep
  \/ Mounted /\ StoreDeleteStep
  \/ Mounted /\ MaterialStep
  \/ Mounted /\ FocusStep
  \/ Mounted /\ TickStep

SpecRecordStore == Init /\ [][NextRecordStore]_vars

\* C20 Unknown ids: update with an id not in the collection returns absent and
\* delete with such an id returns false, the collection stays as it was and no
\* signal is dispatched; delete returns true exactly when the id was stored,
\* and then exactly that record is gone, the others unchanged and in order.
C20_UnknownId ==
  [][/\ (last'.op = "update" /\ \A i \in DOMAIN inventory : inventory[i].id # last'.id) =>
          (last'.returned = "null" /\ inventory' = inventory /\ last'.dispatched = <<>>)
     /\ last'.op = "delete" =>
          LET positions == {i \in DOMAIN inventory : inventory[i].id = last'.id}
          IN /\ last'.returned = (positions # {})
             /\ last'.dispatched = <<>>
             /\ positions = {} => inventory' = inventory
             /\ positions # {} =>
                  \E k \in positions :
                    inventory' = [i \in 1..(Len(inventory) - 1) |->
                                    IF i < k THEN inventory[i] ELSE inventory[i + 1]]]_vars

\* update was called with an id no stored item has
C20_Witness ==
  /\ last.op = "update"
  /\ last.returned = "null"
  /\ inventory # <<>>
  /\ \A i \in DOMAIN inventory : inventory[i].id # last.id

\* ------------------------------------------------------- stored stock-in orders
\* the line items a saved order left in stockInItems, ids still to be given
StoredLines(orderId, items) ==
  [i \in DOMAIN items |-> [orderId |-> orderId, materialId |-> items[i].materialId,
                           quantity |-> items[i].quantity, unitPrice |-> items[i].unitPrice]]

\* ids in storage order, as create hands them out
Numbered(items) == [i \in DOMAIN items |-> [id |-> i] @@ items[i]]

\* what draft saves of up to two orders leave in stockInOrders and stockInItems
StoredOrders ==
  {[orders |-> <<>>, items |-> <<>>]}
    \cup {[orders |-> <<[id |-> o, status |-> "draft"]>>,
           items |-> Numbered(StoredLines(o, lines))] :
            o \in 1..2, lines \in ValidItemLists}
    \cup {[orders |-> <<[id |-> 1, status |-> "draft"], [id |-> 2, status |-> "draft"]>>,
           items |-> Numbered(StoredLines(1, first) \o StoredLines(2, second))] :
            first \in ValidItemLists, second \in ValidItemLists}
    \cup {[orders |-> <<[id |-> 1, status |-> "draft"], [id |-> 2, status |-> "draft"]>>,
           items |-> Numbered(StoredLines(2, second) \o StoredLines(1, first))] :
            first \in ValidItemLists, second \in ValidItemLists}

\* the stock-in page opened on stored orders by whoever holds the session
InitOrders ==
  /\ \E stored \in StoredOrders :
       /\ stockInOrders = stored.orders
       /\ stockInItems = stored.items
  /\ materials = <<"m1", "m2">>
  /\ inventory = <<>>
  /\ inventoryTransactions = <<>>
  /\ orderIds = 2
  /\ users = <<DefaultAdmin>>
  /\ currentUser \in SessionUsers
  /\ syncStatus = "idle"
  /\ closureSyncStatus = "idle"
  /\ lastUpdateTimestamp = 0
  /\ pendingNotify = <<>>
  /\ now = 1
  /\ last = Op("init", "ok")

\* the delete button of a row, or of a row another tab has already removed
DeleteOrderStep ==
  \E id \in 1..2, confirmed \in BOOLEAN :
    /\ deleteStockInOrder(id, confirmed)
    /\ last' = [op |-> "deleteOrder", id |-> id, outcome |-> deleteOutcome(id, confirmed)]

NextOrders ==
  \/ DeleteOrderStep
  \/ LoginStep

SpecOrders == InitOrders /\ [][NextOrders]_vars

\* C21 Cascade delete: a permitted and confirmed deleteStockInOrder(id) leaves
\* no line item with orderId = id and no header with that id, and the headers
\* and line items of the other orders as they were; without the delete
\* permission on stock_in no header and no line item goes.
C21_CascadeDelete ==
  [][last'.op = "deleteOrder" =>
       /\ last'.outcome \in {"ok", "failed"} =>
            /\ \A i \in DOMAIN stockInItems' : stockInItems'[i].orderId # last'.id
            /\ \A i \in DOMAIN stockInOrders' : stockInOrders'[i].id # last'.id
            /\ stockInOrders' = SelectSeq(stockInOrders, LAMBDA o : o.id # last'.id)
            /\ stockInItems' = SelectSeq(stockInItems, LAMBDA it : it.orderId # last'.id)
       /\ last'.outcome = "permission_denied" =>
            /\ ~hasPermission(currentUser, "stock_in", "delete")
            /\ stockInOrders' = stockInOrders
            /\ stockInItems' = stockInItems]_vars

\* order 1 and its lines are gone, order 2 and its two lines are still there
C21_Witness ==
  /\ last = [op |-> "deleteOrder", id |-> 1, outcome |-> "ok"]
  /\ stockInOrders = <<[id |-> 2, status |-> "draft"]>>
  /\ Len(stockInItems) = 2
  /\ \A i \in DOMAIN stockInItems : stockInItems[i].orderId = 2

\* the forms that fail validation in each way, and one draft that passes
ValidationForms ==
  {formData \in OfferedForms :
     formData.supplierId = "" \/ formData.orderDate = "" \/ formData.items \in InvalidItemLists}
    \cup {Form("s1", "d1", "draft", <<Line("m1", 1, 1)>>)}

\* the save button of the modal, on a new order or on a stored one
SaveFormStep ==
  \E formData \in ValidationForms, currentOrder \in OrderRefs :
    /\ saveStockInOrder(formData, currentOrder)
    /\ last' = [op |-> "saveForm", formData |-> formData, currentOrder |-> currentOrder,
                outcome |-> saveOutcome(formData, currentOrder)]

SpecValidate == InitOrders /\ [][SaveFormStep]_vars

\* C22 Validate before any write: a save whose form lacks the supplier or the
\* date, has no line, or has a line without material, with quantity <= 0 or
\* with unit price <= 0, wherever that line stands, writes no collection:
\* orders, line items, inventory and transactions stay as they were.
C22_ValidateBeforeWrite ==
  [][(/\ last'.op = "saveForm"
      /\ \/ last'.formData.supplierId = ""
         \/ last'.formData.orderDate = ""
         \/ last'.formData.items = <<>>
         \/ \E i \in DOMAIN last'.formData.items :
              \/ last'.formData.items[i].materialId = NoMaterial
              \/ last'.formData.items[i].quantity <= 0
              \/ last'.formData.items[i].unitPrice <= 0)
       => (last'.outcome = "invalid" /\ store' = store)]_vars

\* an edit of a stored order was refused for its second line
C22_Witness ==
  /\ last.op = "saveForm"
  /\ last.outcome = "invalid"
  /\ last.currentOrder # NoOrder
  /\ last.formData.items = <<Line("m1", 1, 1), Line("m2", 0, 1)>>
  /\ stockInItems # <<>>

\* ------------------------------------------------------ adjustment dialog
\* the toasts of one adjustInventory call: an error toast from each early
\* return and from the catch block, the success toast at the end of the try
adjustToasts(itemId, quantity) ==
  IF adjustOutcome(itemId, quantity) = "ok" THEN <<"success">> ELSE <<"error">>

\* saveInventoryAdjustment: awaits adjustInventory, which resolves whatever
\* happened, then closes the modal and toasts success
saveInventoryAdjustmentToasts(itemId, quantity) ==
  Append(adjustToasts(itemId, quantity), "success")

\* the dialog opened on a listed item; its validateForm refuses quantity 0
SaveAdjustmentStep ==
  \E i \in DOMAIN inventory, quantity \in Deltas \ {0} :
    /\ adjustInventory(inventory[i].id, quantity)
    /\ last' = [op |-> "saveInventoryAdjustment",
                outcome |-> adjustOutcome(inventory[i].id, quantity),
                toasts |-> saveInventoryAdjustmentToasts(inventory[i].id, quantity)]

NextDialog ==
  \/ MountStep
  \/ Mounted /\ SaveAdjustmentStep
  \/ Mounted /\ MaterialStep
  \/ Mounted /\ LoginStep

SpecDialog == Init /\ [][NextDialog]_vars

\* C23 Refusal surfaced: when adjustInventory refuses an adjustment for
\* insufficient stock or an unknown item, the save path of the dialog does not
\* toast success.
C23_RefusalSurfaced ==
  (last.op = "saveInventoryAdjustment" /\ last.outcome \in {"insufficient", "not_found"}) =>
    \A k \in DOMAIN last.toasts : last.toasts[k] # "success"

\* ------------------------------------------------------- ledger mutations
\* the two ledger mutations with their arguments observed, and the handlers
\* that run between them
AdjustMutation ==
  \E itemId \in ItemIds, quantity \in Deltas :
    /\ adjustOutcome(itemId, quantity) = "ok"
    /\ adjustInventory(itemId, quantity)
    /\ last' = [op |-> "adjust", outcome |-> "ok", itemId |-> itemId, quantity |-> quantity,
                refreshes |-> adjustResult(itemId, quantity).refreshes,
                reads |-> adjustResult(itemId, quantity).reads]

ReceiveMutation ==
  \E formData \in ReceivingForms :
    /\ saveStockInOrder(formData, NoOrder)
    /\ last' = [op |-> "receive", outcome |-> "ok", items |-> formData.items,
                refreshes |-> saveResult(formData, NoOrder).refreshes,
                reads |-> saveResult(formData, NoOrder).reads]

NextLedger ==
  \/ MountStep
  \/ Mounted /\ AdjustMutation
  \/ Mounted /\ ReceiveMutation
  \/ Mounted /\ NotifyStep
  \/ Mounted /\ FocusStep
  \/ Mounted /\ MaterialStep
  \/ Mounted /\ TickStep

SpecLedger == Init /\ [][NextLedger]_vars

\* the stored quantity of a material, 0 without an item
QuantityOf(inv, m) ==
  IF ItemsOf(inv, m) = {} THEN 0 ELSE inv[CHOOSE i \in ItemsOf(inv, m) : TRUE].quantity

\* what the lines of a form add to a material
LineQuantity(items, m) ==
  LET lines == SelectSeq(items, LAMBDA l : l.materialId = m)
  IN SumSeq([k \in DOMAIN lines |-> lines[k].quantity])

\* C24 No interleaving: a ledger mutation and the handlers its signals run leave
\* exactly the mutation's own effect: an adjustment changes the quantity of its
\* item by its delta and appends its one transaction, a completed stock-in adds
\* each line to its material and appends one transaction per line in line
\* order, and nothing else changes a quantity or appends a transaction; the
\* delayed callback of a completed stock-in and the focus refresh change no
\* quantity and append nothing.
C24_NoInterleaving ==
  [][/\ last'.op = "adjust" =>
          LET index == FindIndex({i \in DOMAIN inventory : inventory[i].id = last'.itemId})
              m == inventory[index].materialId
              n == Len(inventoryTransactions)
          IN /\ Len(inventoryTransactions') = n + 1
             /\ SubSeq(inventoryTransactions', 1, n) = inventoryTransactions
             /\ inventoryTransactions'[n + 1].materialId = m
             /\ inventoryTransactions'[n + 1].quantity = last'.quantity
             /\ \A mm \in Materials :
                  QuantityOf(inventory', mm) =
                    QuantityOf(inventory, mm) + (IF mm = m THEN last'.quantity ELSE 0)
     /\ last'.op = "receive" =>
          LET n == Len(inventoryTransactions)
          IN /\ Len(inventoryTransactions') = n + Len(last'.items)
             /\ SubSeq(inventoryTransactions', 1, n) = inventoryTransactions
             /\ \A k \in DOMAIN last'.items :
                  /\ inventoryTransactions'[n + k].materialId = last'.items[k].materialId
                  /\ inventoryTransactions'[n + k].quantity = last'.items[k].quantity
             /\ \A mm \in Materials :
                  QuantityOf(inventory', mm) =
                    QuantityOf(inventory, mm) + LineQuantity(last'.items, mm)
     /\ last'.op \in {"notify", "focus"} =>
          /\ inventoryTransactions' = inventoryTransactions
          /\ \A mm \in Materials : QuantityOf(inventory', mm) = QuantityOf(inventory, mm)]_vars

\* the signal of the quantity write ran a refresh before the transaction was
\* appended, and the item holds the two adjustments made
C24_Witness ==
  /\ last.op = "adjust"
  /\ last.refreshes >= 1
  /\ Len(inventoryTransactions) = 2
  /\ \A k \in DOMAIN inventoryTransactions : inventoryTransactions[k].type = "adjustment"
  /\ \E i \in DOMAIN inventory :
       /\ inventory[i].id = last.itemId
       /\ inventory[i].quantity = 2

\* C25 Reconciled reads: whenever the provider reloads, every stored quantity
\* equals the sum of the stored transactions of its material: no refresh runs
\* between a quantity write and the append of its transaction, nor between the
\* lines of one completed stock-in.
C25_ReconciledReads ==
  last.op \in {"adjust", "receive"} => \A k \in DOMAIN last.reads : last.reads[k]

\* the lines openEditModal puts on the form for a stored order
FormLinesOf(orderId) ==
  LET stored == SelectSeq(stockInItems, LAMBDA it : it.orderId = orderId)
  IN [k \in DOMAIN stored |->
        Line(stored[k].materialId, stored[k].quantity, stored[k].unitPrice)]

\* C26 Applied exactly once: saving the edit form of an order that is stored as
\* completed, lines as stored and status still completed, changes no inventory
\* quantity and appends no transaction.
C26_AppliedOnce ==
  [][(/\ last'.op = "save"
      /\ last'.outcome = "completed"
      /\ last'.currentOrder # NoOrder
      /\ \E i \in DOMAIN stockInOrders :
           /\ stockInOrders[i].id = last'.currentOrder
           /\ stockInOrders[i].status = "completed"
      /\ last'.formData.items = FormLinesOf(last'.currentOrder))
       => (/\ inventoryTransactions' = inventoryTransactions
           /\ \A m \in Materials : QuantityOf(inventory', m) = QuantityOf(inventory, m))]_vars

\* ----------------------------------------------- stock-in page and the session
\* an admin, the default staff, and a staff whose stock_in permissions the
\* user form reduced to view
StockInUsers ==
  {User("admin", DEFAULT_PERMISSIONS.admin),
   User("staff", DEFAULT_PERMISSIONS.staff),
   User("staff", [DEFAULT_PERMISSIONS.staff EXCEPT !.stock_in = {"view"}])}

\* the ledger writes of both pages by whoever holds the session
NextStockInAuth ==
  \/ MountStep
  \/ Mounted /\ \E user \in StockInUsers : login(user) /\ last' = Op("login", "ok")
  \/ Mounted /\ ReceiveTurn
  \/ Mounted /\ AdjustTurn
  \/ Mounted /\ MaterialStep

SpecStockInAuth == Init /\ [][NextStockInAuth]_vars

\* C27 No write without permission: a step that changes an inventory quantity,
\* appends a transaction or creates an order is an adjustment by a user with
\* edit on inventory or a stock-in save by a user with edit on stock_in.
C27_PermissionBeforeWrite ==
  [][(\/ inventoryTransactions' # inventoryTransactions
      \/ stockInOrders' # stockInOrders
      \/ \E m \in Materials : QuantityOf(inventory', m) # QuantityOf(inventory, m))
       => \/ last'.op = "adjust" /\ hasPermission(currentUser, "inventory", "edit")
          \/ last'.op = "receive" /\ hasPermission(currentUser, "stock_in", "edit")]_vars

\* ------------------------------------------------------------ acting user
\* the default admin and a staff user created on the Users page; one of them
\* is logged in
InitAudit ==
  /\ materials = <<"m1">>
  /\ inventory = <<>>
  /\ inventoryTransactions = <<>>
  /\ stockInOrders = <<>>
  /\ stockInItems = <<>>
  /\ orderIds = 0
  /\ users = createUser(<<DefaultAdmin>>, UserData("u1", "staff", TRUE))
  /\ currentUser \in {users[i] : i \in DOMAIN users}
  /\ syncStatus = "idle"
  /\ closureSyncStatus = "idle"
  /\ lastUpdateTimestamp = 0
  /\ pendingNotify = <<>>
  /\ now = 1
  /\ last = Op("init", "ok")

NextAudit ==
  \/ MountStep
  \/ Mounted /\ HandleLoginStep
  \/ Mounted /\ AdjustTurn
  \/ Mounted /\ ReceiveTurn
  \/ Mounted /\ TickStep

SpecAudit == InitAudit /\ [][NextAudit]_vars

\* C28 Acting user: every transaction appended by an adjustment or a completed
\* stock-in carries as createdBy the identifier of the user logged in, here
\* read as the username.
C28_CreatedBy ==
  [][\A k \in (Len(inventoryTransactions) + 1)..Len(inventoryTransactions') :
       inventoryTransactions'[k].createdBy = currentUser.username]_vars

\* ------------------------------------------------------------ order numbers
MaxNumbered == 3    \* stock-in orders ever created with a generated number

\* date.toISOString().split('T')[0] of the clock, which in this part of the
\* model advances one day per tick
toISODate(t) == <<"d1", "d2", "d3", "d4">>[t]

\* generateOrderNumber: RK, today's date and the count of loaded orders dated
\* today plus one; the fixed-width date keeps the two parts apart
generateOrderNumber(orders, today) ==
  LET todayOrders == SelectSeq(orders, LAMBDA order : order.orderDate = today)
  IN [date |-> today, sequence |-> Len(todayOrders) + 1]

\* the forms of openCreateModal as filled in for a draft: any order date
NumberedForms ==
  {Form("s1", toISODate(t), "draft", <<Line("m1", 1, 1)>>) : t \in 1..MaxTime}

\* saveStockInOrder from the create modal, the header with its generated
\* orderNumber and the order date of the form
saveNumberedOrder(formData) ==
  LET savedId == orderIds + 1
      ctx1 == saveResult(formData, NoOrder)
  IN /\ validateForm(formData)
     /\ orderIds < MaxNumbered
     /\ stockInOrders' =
          Append(stockInOrders,
                 [id |-> savedId,
                  orderNumber |-> generateOrderNumber(stockInOrders, toISODate(now)),
                  orderDate |-> formData.orderDate,
                  status |-> formData.status])
     /\ orderIds' = orderIds + 1
     /\ Commit(ctx1)
     /\ pendingNotify' = IF ~ctx1.failed /\ formData.status = "completed"
                         THEN Append(pendingNotify, now) ELSE pendingNotify
     /\ UNCHANGED <<users, materials, currentUser, now>>

SaveNumberedStep ==
  \E formData \in NumberedForms : saveNumberedOrder(formData) /\ last' = Op("save", "ok")

DeleteNumberedStep ==
  \E i \in DOMAIN stockInOrders :
    /\ deleteStockInOrder(stockInOrders[i].id, TRUE)
    /\ last' = Op("delete", deleteOutcome(stockInOrders[i].id, TRUE))

NextNumbers ==
  \/ MountStep
  \/ Mounted /\ SaveNumberedStep
  \/ Mounted /\ DeleteNumberedStep
  \/ Mounted /\ TickStep

SpecOrderNumbers == Init /\ [][NextNumbers]_vars

\* C29 Unique order numbers: after any creations and deletions no two stored
\* stock-in orders carry the same generated order number.
C29_UniqueOrderNumbers ==
  \A i, j \in DOMAIN stockInOrders :
    i # j => stockInOrders[i].orderNumber # stockInOrders[j].orderNumber

\* ------------------------------------------------------------ category tree
MaxCategories == 3  \* longest category list handed to buildCategoryTree

CategoryIds == <<"c1", "c2", "c3", "c4">>

\* the stored category lists; the parents a category can name: none (""), any
\* category of the list (the select of the category form offers every
\* category, the edited one included) or a category that was deleted since
CategoryLists ==
  UNION {{[i \in 1..n |-> [id |-> CategoryIds[i], parentId |-> parents[i]]] :
            parents \in [1..n -> {"", "gone"} \cup {CategoryIds[k] : k \in 1..n}]} :
          n \in 0..MaxCategories}

RECURSIVE PlaceNodes(_, _, _)
\* second forEach: each node is pushed to its parent's children when the
\* parent is in the map, to the roots otherwise; nodes are named by their id
PlaceNodes(categories, map, roots) ==
  IF categories = <<>> THEN [roots |-> roots, children |-> map]
  ELSE LET category == Head(categories)
       IN IF category.parentId # "" /\ category.parentId \in DOMAIN map
          THEN PlaceNodes(Tail(categories),
                          [map EXCEPT ![category.parentId] = Append(@, category.id)],
                          roots)
          ELSE PlaceNodes(Tail(categories), map, Append(roots, category.id))

\* the first forEach gives every id a node with no children
buildCategoryTree(categories) ==
  PlaceNodes(categories,
             [id \in {categories[i].id : i \in DOMAIN categories} |-> <<>>], <<>>)

RECURSIVE Occurrences(_, _, _, _)
\* how often the node id is met when the forest is walked from the given
\* nodes downwards, at most depth levels deep
Occurrences(tree, nodes, id, depth) ==
  IF nodes = <<>> \/ depth = 0 THEN 0
  ELSE (IF Head(nodes) = id THEN 1 ELSE 0)
         + Occurrences(tree, tree.children[Head(nodes)], id, depth - 1)
         + Occurrences(tree, Tail(nodes), id, depth)

InitCategories ==
  /\ materials = <<"m1">>
  /\ inventory = <<>>
  /\ inventoryTransactions = <<>>
  /\ stockInOrders = <<>>
  /\ stockInItems = <<>>
  /\ orderIds = 0
  /\ users = <<DefaultAdmin>>
  /\ currentUser = User("admin", DEFAULT_PERMISSIONS.admin)
  /\ syncStatus = "idle"
  /\ closureSyncStatus = "idle"
  /\ lastUpdateTimestamp = 0
  /\ pendingNotify = <<>>
  /\ now = 1
  /\ \E categories \in CategoryLists :
       last = [op |-> "categories", categories |-> categories]

BuildCategoryTreeStep ==
  /\ last.op = "categories"
  /\ last' = [op |-> "buildCategoryTree", categories |-> last.categories,
              tree |-> buildCategoryTree(last.categories)]
  /\ UNCHANGED <<materials, inventory, inventoryTransactions, stockInOrders, stockInItems,
                 orderIds, users, currentUser, syncStatus, closureSyncStatus,
                 lastUpdateTimestamp, pendingNotify, now>>

SpecCategories == InitCategories /\ [][BuildCategoryTreeStep]_vars

\* C30 No category lost: every category of the input, the members of a
\* parent-pointer cycle and a category naming itself as parent included, is met
\* exactly once when the returned forest is walked from its roots.
C30_NoCategoryLost ==
  last.op = "buildCategoryTree" =>
    \A i \in DOMAIN last.categories :
      Occurrences(last.tree, last.tree.roots, last.categories[i].id,
                  Len(last.categories) + 1) = 1

====
